---- MODULE Spec2Model ----
(***************************************************************************)
(* A model of app.py of the Resume Reviewer: the text helpers              *)
(* (extract_data_from_text, get_detailed_feedback), the scorer             *)
(* (load_model, get_resume_score) and the Analyze handler of the page      *)
(* script.  Texts are sequences of one-character strings so that lower(),  *)
(* substring tests, split, strip and the three regular expressions are     *)
(* computed character by character, as Python computes them.               *)
(***************************************************************************)
EXTENDS Integers, Sequences, FiniteSets, TLC

(* ------------------------------ bounds --------------------------------- *)
\* number of fragments an input text is concatenated from
MaxFrags ==
    3
\* number of browser sessions (script runner threads) of the one process
NumSessions ==
    2
\* total number of clicks on "Analyze Resume" in a behaviour
MaxClicks ==
    3
\* a classifier confidence is c / ConfScale with c in 0..ConfScale
ConfScale ==
    2

(* --------------------------- characters -------------------------------- *)
UpperChars ==
    <<"A", "B", "C", "D", "E", "F", "G", "H", "I", "J", "K", "L", "M", "N", "O", "P", "Q", "R", "S", "T", "U", "V", "W", "X", "Y", "Z">>
LowerChars ==
    <<"a", "b", "c", "d", "e", "f", "g", "h", "i", "j", "k", "l", "m", "n", "o", "p", "q", "r", "s", "t", "u", "v", "w", "x", "y", "z">>
DigitChars ==
    <<"0", "1", "2", "3", "4", "5", "6", "7", "8", "9">>
UpperSet ==
    {UpperChars[i] : i \in 1..Len(UpperChars)}
LowerSet ==
    {LowerChars[i] : i \in 1..Len(LowerChars)}
DigitSet ==
    {DigitChars[i] : i \in 1..Len(DigitChars)}
SpaceSet ==
    {" ", "\t", "\n", "\r"}
\* [A-Z]
IsUpper(c) ==
    c \in UpperSet
\* [a-z]
IsLower(c) ==
    c \in LowerSet
\* \d
IsDigit(c) ==
    c \in DigitSet
\* \s
IsSpace(c) ==
    c \in SpaceSet
\* \w
IsWordChar(c) ==
    c \in UpperSet \cup LowerSet \cup DigitSet \cup {"_"}
\* [\w\.-]
IsEmailChar(c) ==
    IsWordChar(c) \/ c \in {".", "-"}
LowerOf ==
    [c \in UpperSet |-> LowerChars[CHOOSE i \in 1..Len(UpperChars) : UpperChars[i] = c]]
ToLowerChar(c) ==
    IF c \in UpperSet THEN LowerOf[c] ELSE c
\* str.lower()
lower(s) ==
    [i \in 1..Len(s) |-> ToLowerChar(s[i])]

(* ----------------------------- strings --------------------------------- *)
\* pat occurs in s at index i (1-based)
StartsWithAt(s, pat, i) ==
    /\ i + Len(pat) - 1 <= Len(s)
    /\ \A k \in 1..Len(pat) : s[i + k - 1] = pat[k]
\* the least element of a non-empty set of indices
Least(S) ==
    CHOOSE k \in S : \A m \in S : k <= m
\* str.find(pat, i): the least index >= i where pat occurs, 0 when there is none
FindFrom(s, pat, i) ==
    LET hits == {k \in i..(Len(s) - Len(pat) + 1) : StartsWithAt(s, pat, k)}
    IN  IF hits = {} THEN 0 ELSE Least(hits)
\* pat in s
str_in(pat, s) ==
    FindFrom(s, pat, 1) # 0
RECURSIVE CountFrom(_, _, _)
\* len(re.findall(pat, s)) for a literal pat: non-overlapping occurrences
CountFrom(s, pat, i) ==
    LET p == FindFrom(s, pat, i)
    IN  IF p = 0 THEN 0 ELSE 1 + CountFrom(s, pat, p + Len(pat))
RECURSIVE split_nl(_)
\* str.split('\n')
split_nl(s) ==
    LET p == FindFrom(s, <<"\n">>, 1)
    IN  IF p = 0 THEN <<s>>
        ELSE <<SubSeq(s, 1, p - 1)>> \o split_nl(SubSeq(s, p + 1, Len(s)))
RECURSIVE lstrip(_)
lstrip(s) ==
    IF s # <<>> /\ IsSpace(s[1]) THEN lstrip(Tail(s)) ELSE s
RECURSIVE rstrip(_)
rstrip(s) ==
    IF s # <<>> /\ IsSpace(s[Len(s)]) THEN rstrip(SubSeq(s, 1, Len(s) - 1)) ELSE s
\* str.strip()
strip(s) ==
    rstrip(lstrip(s))

(* ------------------------ string literals of app.py -------------------- *)
NotFound ==
    <<"N", "o", "t", " ", "f", "o", "u", "n", "d">>
kw_experience ==
    <<"e", "x", "p", "e", "r", "i", "e", "n", "c", "e">>
kw_education ==
    <<"e", "d", "u", "c", "a", "t", "i", "o", "n">>
kw_skills ==
    <<"s", "k", "i", "l", "l", "s">>
kw_contact ==
    <<"c", "o", "n", "t", "a", "c", "t">>
lit_Skills ==
    <<"S", "k", "i", "l", "l", "s">>
lit_years_experience ==
    <<"y", "e", "a", "r", "s", " ", "e", "x", "p", "e", "r", "i", "e", "n", "c", "e">>
lit_years_of_experience ==
    <<"y", "e", "a", "r", "s", " ", "o", "f", " ", "e", "x", "p", "e", "r", "i", "e", "n", "c", "e">>
lit_Determined ==
    <<"D", "e", "t", "e", "r", "m", "i", "n", "e", "d", " ", "w", "o", "r", "k", " ", "p", "l", "a", "c", "e", "m", "e", "n", "t">>
lit_gpa ==
    <<"g", "p", "a">>
lit_childcare ==
    <<"c", "h", "i", "l", "d", "c", "a", "r", "e">>
lit_adult_care ==
    <<"a", "d", "u", "l", "t", " ", "c", "a", "r", "e">>
lit_teacher ==
    <<"t", "e", "a", "c", "h", "e", "r">>
lit_caregiver ==
    <<"c", "a", "r", "e", "g", "i", "v", "e", "r">>
lit_years_suffix ==
    <<" ", "y", "e", "a", "r", "s">>
lit_year ==
    <<"y", "e", "a", "r">>
lit_Resume ==
    <<"R", "e", "s", "u", "m", "e", ":", "\n">>
lit_JobDescription ==
    <<"\n", "\n", "J", "o", "b", " ", "D", "e", "s", "c", "r", "i", "p", "t", "i", "o", "n", ":", "\n">>
SkillsFound ==
    "Explicit Skills section found."
SkillsMissing ==
    "No explicit skills section is present; consider adding one."
GrammarFinding ==
    "The phrase 'years experience' should be 'years of experience' for correct grammar."
ToneFinding ==
    "The phrase 'Determined work placement' could be stronger as 'Determined and assigned work placements' using stronger action verbs."
GpaFinding ==
    "The detailed GPA breakdown may be excessive unless applying for academic roles; consider summarizing."
ExperienceFinding ==
    "The resume mixes different types of experience; consider tailoring or separating sections more clearly."
SkillsFinding ==
    "No explicit skills section is present; important skills should be clearly listed to improve ATS parsing."
UploadError ==
    "Please upload a resume file."
JobDescriptionError ==
    "Please provide a job description."
AnalysisComplete ==
    "Analysis Complete!"
\* the width below which a line may be taken as the position
PositionWidth ==
    50

(* ------------------- regular expressions (app.py 58-60) ---------------- *)
NoMatch ==
    [found |-> FALSE, group |-> <<>>]
Match(g) ==
    [found |-> TRUE, group |-> g]
RECURSIVE LowerEnd(_, _)
\* [a-z]* from i, greedy: the index after the run
LowerEnd(s, i) ==
    IF i <= Len(s) /\ IsLower(s[i]) THEN LowerEnd(s, i + 1) ELSE i
RECURSIVE DigitsEnd(_, _)
\* \d* from i, greedy
DigitsEnd(s, i) ==
    IF i <= Len(s) /\ IsDigit(s[i]) THEN DigitsEnd(s, i + 1) ELSE i
RECURSIVE SpaceEnd(_, _)
\* \s* from i, greedy
SpaceEnd(s, i) ==
    IF i <= Len(s) /\ IsSpace(s[i]) THEN SpaceEnd(s, i + 1) ELSE i
RECURSIVE EmailEnd(_, _)
\* [\w\.-]* from i, greedy
EmailEnd(s, i) ==
    IF i <= Len(s) /\ IsEmailChar(s[i]) THEN EmailEnd(s, i + 1) ELSE i
\* [A-Z][a-z]+ at i: the index after the word, 0 when it does not match
CapWordEnd(s, i) ==
    IF i + 1 <= Len(s) /\ IsUpper(s[i]) /\ IsLower(s[i + 1])
    THEN LowerEnd(s, i + 1)
    ELSE 0
RECURSIVE NameGroups(_, _)
\* (?: [A-Z][a-z]+)* from i, greedy: the index after the last group
NameGroups(s, i) ==
    IF i <= Len(s) /\ s[i] = " " /\ CapWordEnd(s, i + 1) # 0
    THEN NameGroups(s, CapWordEnd(s, i + 1))
    ELSE i
\* name_pattern.search(s): ^ anchors the match at the start of the text
name_pattern_search(s) ==
    LET e1 == CapWordEnd(s, 1)
        e2 == IF e1 = 0 THEN 0 ELSE NameGroups(s, e1)
    IN  IF e1 # 0 /\ e2 > e1 THEN Match(SubSeq(s, 1, e2 - 1)) ELSE NoMatch
\* [\w\.-]+@[\w\.-]+ at i: the index after the match, 0 when it does not match
EmailMatchAt(s, i) ==
    LET e == EmailEnd(s, i)
    IN  IF e > i /\ e + 1 <= Len(s) /\ s[e] = "@" /\ IsEmailChar(s[e + 1])
        THEN EmailEnd(s, e + 1)
        ELSE 0
\* email_pattern.search(s): the match at the least index that has one
email_pattern_search(s) ==
    LET hits == {i \in 1..Len(s) : EmailMatchAt(s, i) # 0}
    IN  IF hits = {} THEN NoMatch
        ELSE Match(SubSeq(s, Least(hits), EmailMatchAt(s, Least(hits)) - 1))
\* (\d+)\s+year[s]?\s+experience at i: the index after group 1, 0 when it
\* does not match
ExperienceMatchAt(s, i) ==
    LET d  == DigitsEnd(s, i)
        w  == SpaceEnd(s, d)
        y  == w + Len(lit_year)
        y2 == IF y <= Len(s) /\ s[y] = "s" THEN y + 1 ELSE y
        w2 == SpaceEnd(s, y2)
    IN  IF /\ d > i
           /\ w > d
           /\ StartsWithAt(s, lit_year, w)
           /\ w2 > y2
           /\ StartsWithAt(s, kw_experience, w2)
        THEN d
        ELSE 0
\* experience_pattern.search(s), group(1) of the match at the least index
experience_pattern_search(s) ==
    LET hits == {i \in 1..Len(s) : ExperienceMatchAt(s, i) # 0}
    IN  IF hits = {} THEN NoMatch
        ELSE Match(SubSeq(s, Least(hits), ExperienceMatchAt(s, Least(hits)) - 1))

(* ------------------ extract_data_from_text (app.py 47-89) -------------- *)
Fields ==
    {"name", "position", "email", "experience", "skills"}
\* the dictionary of lines 49-55
InitData ==
    [name |-> NotFound, position |-> NotFound, email |-> NotFound,
     experience |-> NotFound, skills |-> "Not found"]
\* lines 63-65
StepName(data, text) ==
    LET name_match == name_pattern_search(text)
    IN  IF name_match.found THEN [data EXCEPT !.name = name_match.group] ELSE data
\* StepEmail with the match stored under the key of the statement above it
StepEmailWrongKey(data, text) ==
    LET email_match == email_pattern_search(text)
    IN  IF email_match.found THEN [data EXCEPT !.name = email_match.group] ELSE data
\* lines 67-69
StepEmail(data, text) ==
    LET email_match == email_pattern_search(text)
    IN  IF email_match.found THEN [data EXCEPT !.email = email_match.group] ELSE data
\* StepExperience searching text instead of text.lower()
StepExperienceCaseSensitive(data, text) ==
    LET experience_match == experience_pattern_search(text)
    IN  IF experience_match.found
        THEN [data EXCEPT !.experience = experience_match.group \o lit_years_suffix]
        ELSE data
\* lines 71-73
StepExperience(data, text) ==
    LET experience_match == experience_pattern_search(lower(text))
    IN  IF experience_match.found
        THEN [data EXCEPT !.experience = experience_match.group \o lit_years_suffix]
        ELSE data
\* LineQualifies with len(line) <= 50
LineQualifiesOffByOne(line) ==
    /\ ~ str_in(kw_experience, lower(line))
    /\ ~ str_in(kw_education, lower(line))
    /\ ~ str_in(kw_skills, lower(line))
    /\ ~ str_in(kw_contact, lower(line))
    /\ Len(line) <= PositionWidth
\* the condition of line 79
LineQualifies(line) ==
    /\ ~ str_in(kw_experience, lower(line))
    /\ ~ str_in(kw_education, lower(line))
    /\ ~ str_in(kw_skills, lower(line))
    /\ ~ str_in(kw_contact, lower(line))
    /\ Len(line) < PositionWidth
RECURSIVE PositionLoop(_, _, _)
\* the for loop of lines 78-82 from line k on
PositionLoop(data, lines, k) ==
    IF k > Len(lines) THEN data
    ELSE IF LineQualifies(lines[k]) /\ data.position = NotFound
         THEN [data EXCEPT !.position = strip(lines[k])]
    ELSE PositionLoop(data, lines, k + 1)
\* lines 77-82
StepPosition(data, text) ==
    PositionLoop(data, split_nl(text), 1)
\* lines 84-87
StepSkills(data, text) ==
    IF str_in(lit_Skills, text)
    THEN [data EXCEPT !.skills = SkillsFound]
    ELSE [data EXCEPT !.skills = SkillsMissing]
extract_data_from_text(text) ==
    StepSkills(StepPosition(StepExperience(StepEmail(StepName(InitData, text),
        text), text), text), text)

(* ------------------ get_detailed_feedback (app.py 92-122) -------------- *)
Categories ==
    <<"grammatical_errors", "professional_tone", "unnecessary_information",
      "experience_relevance", "skills_relevance">>
\* the dictionary of lines 94-100
InitFeedback ==
    [grammatical_errors |-> <<>>, professional_tone |-> <<>>,
     unnecessary_information |-> <<>>, experience_relevance |-> <<>>,
     skills_relevance |-> <<>>]
\* RuleGrammar testing text instead of text.lower()
RuleGrammarCaseSensitive(feedback, text) ==
    IF str_in(lit_years_experience, text)
       /\ ~ str_in(lit_years_of_experience, text)
    THEN [feedback EXCEPT !.grammatical_errors = Append(@, GrammarFinding)]
    ELSE feedback
\* lines 103-104
RuleGrammar(feedback, text) ==
    IF str_in(lit_years_experience, lower(text))
       /\ ~ str_in(lit_years_of_experience, lower(text))
    THEN [feedback EXCEPT !.grammatical_errors = Append(@, GrammarFinding)]
    ELSE feedback
\* lines 107-108
RuleTone(feedback, text) ==
    IF str_in(lit_Determined, text)
    THEN [feedback EXCEPT !.professional_tone = Append(@, ToneFinding)]
    ELSE feedback
\* RuleGpa appending to the list of the rule two above it
RuleGpaWrongCategory(feedback, text) ==
    IF str_in(lit_gpa, lower(text)) /\ CountFrom(lower(text), lit_gpa, 1) > 1
    THEN [feedback EXCEPT !.grammatical_errors = Append(@, GpaFinding)]
    ELSE feedback
\* lines 111-112
RuleGpa(feedback, text) ==
    IF str_in(lit_gpa, lower(text)) /\ CountFrom(lower(text), lit_gpa, 1) > 1
    THEN [feedback EXCEPT !.unnecessary_information = Append(@, GpaFinding)]
    ELSE feedback
\* lines 115-116
RuleExperience(feedback, text) ==
    IF \/ str_in(lit_childcare, lower(text)) /\ str_in(lit_adult_care, lower(text))
       \/ str_in(lit_teacher, lower(text)) /\ str_in(lit_caregiver, lower(text))
    THEN [feedback EXCEPT !.experience_relevance = Append(@, ExperienceFinding)]
    ELSE feedback
\* RuleSkills testing text instead of text.lower()
RuleSkillsCaseSensitive(feedback, text) ==
    IF ~ str_in(kw_skills, text)
    THEN [feedback EXCEPT !.skills_relevance = Append(@, SkillsFinding)]
    ELSE feedback
\* lines 119-120
RuleSkills(feedback, text) ==
    IF ~ str_in(kw_skills, lower(text))
    THEN [feedback EXCEPT !.skills_relevance = Append(@, SkillsFinding)]
    ELSE feedback
\* rule i of the function, in the order of the source
Rule(i, feedback, text) ==
    CASE i = 1 -> RuleGrammar(feedback, text)
      [] i = 2 -> RuleTone(feedback, text)
      [] i = 3 -> RuleGpa(feedback, text)
      [] i = 4 -> RuleExperience(feedback, text)
      [] i = 5 -> RuleSkills(feedback, text)
NumRules ==
    5
get_detailed_feedback(text) ==
    RuleSkills(RuleExperience(RuleGpa(RuleTone(RuleGrammar(InitFeedback, text),
        text), text), text), text)

(* --------------- get_resume_score (app.py 14-36) ----------------------- *)
\* candidate_labels, lines 19-27
candidate_labels ==
    <<"Strong technical skills", "Experience with project management",
      "Clear and concise summary", "Measurable achievements included",
      "Well-structured and easy to read", "Relevant keywords for the job",
      "Excellent communication skills">>
\* line 29
prompt_of(resume_text, job_description) ==
    lit_Resume \o resume_text \o lit_JobDescription \o job_description
\* A deterministic stand-in for classifier(prompt, candidate_labels,
\* multi_label=True): one confidence per label, the i-th being
\* result[i] / ConfScale, a function of the stub's weights and the prompt.
StubScores(base, prompt, labels) ==
    [i \in 1..Len(labels) |-> (base[i] + i * Len(prompt)) % (ConfScale + 1)]
RECURSIVE SumSeq(_)
\* sum(result['scores']), in units of 1 / ConfScale
SumSeq(s) ==
    IF s = <<>> THEN 0 ELSE Head(s) + SumSeq(Tail(s))
\* average_score without the division by len(result['scores'])
average_score_no_division(scores) ==
    [num |-> SumSeq(scores) * 100, den |-> ConfScale]
\* lines 33-34: total_score / len(scores) * 100 as the exact fraction num / den
average_score(scores) ==
    [num |-> SumSeq(scores) * 100, den |-> Len(scores) * ConfScale]
\* int(score), line 163
int_of(q) ==
    q.num \div q.den

(* ------------------- extract_text_from_pdf (app.py 38-44) -------------- *)
PageA1 ==
    <<"J", "o", "h", "n", " ", "S", "m", "i", "t", "h", "\n">>
PageA2 ==
    <<"5", " ", "y", "e", "a", "r", "s", " ", "e", "x", "p", "e", "r", "i", "e", "n", "c", "e">>
PageB1 ==
    <<"S", "k", "i", "l", "l", "s", ":", " ", "S", "Q", "L">>
JobPython ==
    <<"P", "y", "t", "h", "o", "n">>
JobSql ==
    <<"S", "Q", "L", " ", "d", "e", "v">>
\* the uploaded files: the pages PyPDF2 extracts from each, and a stream
\* PdfReader rejects
Documents ==
    {"A", "B", "corrupt"}
Pages(file) ==
    CASE file = "A" -> <<PageA1, PageA2>>
      [] file = "B" -> <<PageB1>>
      [] OTHER -> <<>>
Readable(file) ==
    file # "corrupt"
RECURSIVE ConcatPages(_, _)
\* the loop of lines 41-43 from page k on
ConcatPages(pages, k) ==
    IF k > Len(pages) THEN <<>> ELSE pages[k] \o ConcatPages(pages, k + 1)
extract_text_from_pdf(file) ==
    ConcatPages(Pages(file), 1)
\* file_uploader returns None until a file is uploaded
None ==
    "None"
JobDescriptions ==
    {<<>>, JobPython}

(* ------------------------------- inputs -------------------------------- *)
RECURSIVE Concat(_)
Concat(ss) ==
    IF ss = <<>> THEN <<>> ELSE Head(ss) \o Concat(Tail(ss))
\* the texts made of at most MaxFrags fragments of F
TextsOver(F) ==
    {Concat(t) : t \in UNION {[1..n -> F] : n \in 0..MaxFrags}}
FragName ==
    <<"J", "o", "h", "n", " ", "S", "m", "i", "t", "h">>
FragSpace ==
    <<" ">>
FragNewline ==
    <<"\n">>
FragEmail ==
    <<"a", ".", "b", "@", "c", "-", "d", ".", "i", "o">>
FragAt ==
    <<"@">>
FragFiveYears ==
    <<"5", " ", "y", "e", "a", "r", "s">>
FragTwelveYear ==
    <<"1", "2", " ", "y", "e", "a", "r">>
FragOf ==
    <<" ", "o", "f">>
FragExperience ==
    <<" ", "e", "x", "p", "e", "r", "i", "e", "n", "c", "e">>
FragThreeYears ==
    <<"3", " ", "Y", "e", "a", "r", "s", " ", " ", "E", "x", "p", "e", "r", "i", "e", "n", "c", "e">>
FragLong ==
    <<"-", "-", "-", "-", "-", "-", "-", "-", "-", "-", "-", "-", "-", "-", "-", "-", "-", "-", "-", "-", "-", "-", "-", "-", "-", "-", "-", "-", "-", "-", "-", "-", "-", "-", "-", "-", "-", "-", "-", "-", "-", "-", "-", "-", "-", "-", "-", "-">>
FragEngineer ==
    <<"E", "n", "g", "i", "n", "e", "e", "r">>
FragEducation ==
    <<"E", "d", "u", "c", "a", "t", "i", "o", "n">>
FragContact ==
    <<"m", "y", " ", "C", "O", "N", "T", "A", "C", "T">>
FragIHave ==
    <<"I", " ", "h", "a", "v", "e", " ", "5", " ", "y", "e", "a", "r", "s">>
FragYearsExperience ==
    <<"Y", "e", "a", "r", "s", " ", "E", "x", "p", "e", "r", "i", "e", "n", "c", "e">>
FragYearsOfExperience ==
    <<"Y", "E", "A", "R", "S", " ", "O", "F", " ", "E", "X", "P", "E", "R", "I", "E", "N", "C", "E">>
FragSkills ==
    <<"S", "k", "i", "l", "l", "s">>
FragSkillsLower ==
    <<"s", "k", "i", "l", "l", "s">>
FragSkillsUpper ==
    <<"S", "K", "I", "L", "L", "S">>
FragDetermined ==
    <<"D", "e", "t", "e", "r", "m", "i", "n", "e", "d", " ", "w", "o", "r", "k", " ", "p", "l", "a", "c", "e", "m", "e", "n", "t">>
FragGpa ==
    <<"G", "P", "A">>
FragChildcare ==
    <<"c", "h", "i", "l", "d", "c", "a", "r", "e">>
FragAdultCare ==
    <<"A", "d", "u", "l", "t", " ", "C", "a", "r", "e">>
FragTeacher ==
    <<"t", "e", "a", "c", "h", "e", "r">>
FragCaregiver ==
    <<"c", "a", "r", "e", "g", "i", "v", "e", "r">>
FieldFrags ==
    {FragName, FragSpace, FragNewline, FragEmail, FragAt, FragFiveYears,
     FragTwelveYear, FragOf, FragExperience, FragThreeYears}
PositionFrags ==
    {FragNewline, FragSpace, FragLong, FragEngineer, FragEducation,
     FragContact, NotFound}
FeedbackFrags ==
    {FragYearsExperience, FragYearsOfExperience, FragDetermined, FragGpa,
     FragChildcare, FragAdultCare, FragTeacher, FragCaregiver, FragSkills}
AnalyzeFrags ==
    {FragIHave, FragOf, FragExperience, FragYearsExperience,
     FragYearsOfExperience, FragSkills, FragSkillsLower, FragSkillsUpper}
\* the weights of the stub the page script is run with
SampleBases ==
    {[i \in 1..Len(candidate_labels) |-> 0],
     [i \in 1..Len(candidate_labels) |-> ConfScale],
     [i \in 1..Len(candidate_labels) |-> i % (ConfScale + 1)]}
ZeroBase ==
    {[i \in 1..Len(candidate_labels) |-> 0]}
AllBases ==
    [1..Len(candidate_labels) -> 0..ConfScale]
Sessions ==
    1..NumSessions

(* ------------------------------- state --------------------------------- *)
VARIABLES
    text,            \* the resume text handed to the two text functions
    data,            \* the dictionary extract_data_from_text builds
    feedback,        \* the dictionary get_detailed_feedback builds
    pc,              \* the position inside the text function being run
    ran,             \* the rules of get_detailed_feedback already run
    uploaded_file,   \* per session: the file_uploader widget
    job_description, \* per session: the text_area widget
    spc,             \* per session: the position of the script run
    invoked,         \* per session: the run has called get_resume_score
    missed,          \* per session: load_model's first lookup missed the cache
    classifier,      \* per session: the instance load_model returned, 0 = none
    exc,             \* per session: the exception that ended the run
    message,         \* per session: the st.error / st.success text shown
    result,          \* per session: score, extracted_data and feedback shown
    cache,           \* st.cache_resource's entry for load_model, 0 = empty
    lock,            \* the session holding the cache's compute lock, 0 = free
    instances,       \* the number of pipelines constructed in this process
    clicks,          \* the number of clicks on "Analyze Resume" so far
    stubBase,        \* the weights of the classifier stub
    history          \* the last two returns of get_resume_score
textVars ==
    <<text, data, feedback, pc, ran>>
sessVars ==
    <<uploaded_file, job_description, spc, invoked, missed, classifier, exc,
      message, result>>
procVars ==
    <<cache, lock, instances, clicks, stubBase>>
vars ==
    <<text, data, feedback, pc, ran, uploaded_file, job_description, spc,
      invoked, missed, classifier, exc, message, result, cache, lock,
      instances, clicks, stubBase, history>>
NoResult ==
    [score |-> [num |-> 0, den |-> 1], data |-> InitData, feedback |-> InitFeedback]
\* the process before any click: nothing uploaded, nothing cached
InitProcess(bases) ==
    /\ uploaded_file = [r \in Sessions |-> None]
    /\ job_description = [r \in Sessions |-> <<>>]
    /\ spc = [r \in Sessions |-> "idle"]
    /\ invoked = [r \in Sessions |-> FALSE]
    /\ missed = [r \in Sessions |-> FALSE]
    /\ classifier = [r \in Sessions |-> 0]
    /\ exc = [r \in Sessions |-> "none"]
    /\ message = [r \in Sessions |-> ""]
    /\ result = [r \in Sessions |-> NoResult]
    /\ cache = 0
    /\ lock = 0
    /\ instances = 0
    /\ clicks = 0
    /\ stubBase \in bases
    /\ history = <<>>
\* a text function entered with a text made of the fragments F
InitText(F, start) ==
    /\ text \in TextsOver(F)
    /\ data = InitData
    /\ feedback = InitFeedback
    /\ pc = start
    /\ ran = {}

(* ------------- the Analyze handler (app.py 145-202) -------------------- *)
\* InputsPresent with "or" for "and"
InputsPresentEither(file, jd) ==
    file # None \/ jd # <<>>
\* line 146
InputsPresent(file, jd) ==
    file # None /\ jd # <<>>
\* The script reruns with analyze_button set: lines 145-146 and 199-202.
Analyze(r, file, jd) ==
    /\ spc[r] \in {"idle", "done", "uncaught"}
    /\ clicks < MaxClicks
    /\ clicks' = clicks + 1
    /\ uploaded_file' = [uploaded_file EXCEPT ![r] = file]
    /\ job_description' = [job_description EXCEPT ![r] = jd]
    /\ invoked' = [invoked EXCEPT ![r] = FALSE]
    /\ missed' = [missed EXCEPT ![r] = FALSE]
    /\ classifier' = [classifier EXCEPT ![r] = 0]
    /\ exc' = [exc EXCEPT ![r] = "none"]
    /\ result' = [result EXCEPT ![r] = NoResult]
    /\ IF InputsPresent(file, jd)
       THEN /\ spc' = [spc EXCEPT ![r] = "extract"]
            /\ message' = [message EXCEPT ![r] = ""]
       ELSE IF file = None
       THEN /\ spc' = [spc EXCEPT ![r] = "done"]
            /\ message' = [message EXCEPT ![r] = UploadError]
       ELSE IF jd = <<>>
       THEN /\ spc' = [spc EXCEPT ![r] = "done"]
            /\ message' = [message EXCEPT ![r] = JobDescriptionError]
       ELSE /\ spc' = [spc EXCEPT ![r] = "done"]
            /\ message' = [message EXCEPT ![r] = ""]
    /\ UNCHANGED <<cache, lock, instances, stubBase, history>>
    /\ UNCHANGED textVars
\* line 149: PdfReader raises on a stream it cannot parse, and nothing in the
\* script catches it
ExtractText(r) ==
    /\ spc[r] = "extract"
    /\ IF Readable(uploaded_file[r])
       THEN /\ spc' = [spc EXCEPT ![r] = "load"]
            /\ exc' = exc
       ELSE /\ spc' = [spc EXCEPT ![r] = "uncaught"]
            /\ exc' = [exc EXCEPT ![r] = "parse"]
    /\ UNCHANGED <<uploaded_file, job_description, invoked, missed, classifier,
                   message, result>>
    /\ UNCHANGED procVars
    /\ UNCHANGED history
    /\ UNCHANGED textVars

(* ------ load_model under @st.cache_resource (app.py 8-12, 18) ---------- *)
\* Line 150 enters get_resume_score, whose line 18 calls load_model: the
\* decorator first reads the cache without a lock.
CacheLookup(r) ==
    /\ spc[r] = "load"
    /\ invoked' = [invoked EXCEPT ![r] = TRUE]
    /\ IF cache # 0
       THEN /\ classifier' = [classifier EXCEPT ![r] = cache]
            /\ spc' = [spc EXCEPT ![r] = "classify"]
            /\ missed' = missed
       ELSE /\ classifier' = classifier
            /\ spc' = [spc EXCEPT ![r] = "wait"]
            /\ missed' = [missed EXCEPT ![r] = TRUE]
    /\ UNCHANGED <<uploaded_file, job_description, exc, message, result>>
    /\ UNCHANGED procVars
    /\ UNCHANGED history
    /\ UNCHANGED textVars
\* LockAcquire without mutual exclusion: a cache that computes on every miss
LockAcquireUnguarded(r) ==
    /\ spc[r] = "wait"
    /\ lock' = r
    /\ spc' = [spc EXCEPT ![r] = "locked"]
    /\ UNCHANGED <<uploaded_file, job_description, invoked, missed, classifier,
                   exc, message, result>>
    /\ UNCHANGED <<cache, instances, clicks, stubBase, history>>
    /\ UNCHANGED textVars
\* on a miss the decorator takes the cache's compute lock
LockAcquire(r) ==
    /\ spc[r] = "wait"
    /\ lock = 0
    /\ lock' = r
    /\ spc' = [spc EXCEPT ![r] = "locked"]
    /\ UNCHANGED <<uploaded_file, job_description, invoked, missed, classifier,
                   exc, message, result>>
    /\ UNCHANGED <<cache, instances, clicks, stubBase, history>>
    /\ UNCHANGED textVars
\* and reads the cache again under the lock
LockedLookup(r) ==
    /\ spc[r] = "locked"
    /\ IF cache # 0
       THEN /\ classifier' = [classifier EXCEPT ![r] = cache]
            /\ spc' = [spc EXCEPT ![r] = "classify"]
            /\ lock' = 0
       ELSE /\ classifier' = classifier
            /\ spc' = [spc EXCEPT ![r] = "construct"]
            /\ lock' = lock
    /\ UNCHANGED <<uploaded_file, job_description, invoked, missed, exc,
                   message, result>>
    /\ UNCHANGED <<cache, instances, clicks, stubBase, history>>
    /\ UNCHANGED textVars
\* lines 11-12: pipeline(...) builds the classifier, which the decorator
\* stores before it releases the lock
ConstructModel(r) ==
    /\ spc[r] = "construct"
    /\ instances' = instances + 1
    /\ cache' = instances + 1
    /\ classifier' = [classifier EXCEPT ![r] = instances + 1]
    /\ lock' = 0
    /\ spc' = [spc EXCEPT ![r] = "classify"]
    /\ UNCHANGED <<uploaded_file, job_description, invoked, missed, exc,
                   message, result>>
    /\ UNCHANGED <<clicks, stubBase, history>>
    /\ UNCHANGED textVars
\* line 11: pipeline(...) raises (weights missing, no memory); nothing is
\* stored and the exception leaves load_model, get_resume_score and the script
ConstructFails(r) ==
    /\ spc[r] = "construct"
    /\ lock' = 0
    /\ spc' = [spc EXCEPT ![r] = "uncaught"]
    /\ exc' = [exc EXCEPT ![r] = "model"]
    /\ UNCHANGED <<uploaded_file, job_description, invoked, missed, classifier,
                   message, result>>
    /\ UNCHANGED <<cache, instances, clicks, stubBase, history>>
    /\ UNCHANGED textVars

(* ------------- lines 29-36 and the rest of the handler ----------------- *)
get_resume_score(base, resume_text, jd) ==
    average_score(StubScores(base, prompt_of(resume_text, jd), candidate_labels))
\* lines 31-36, 151-197: the classifier answers, and the handler shows the
\* score, the extracted data and the feedback
Classify(r) ==
    /\ spc[r] = "classify"
    /\ LET resume_text == extract_text_from_pdf(uploaded_file[r])
       IN  result' = [result EXCEPT ![r] =
                        [score |-> get_resume_score(stubBase, resume_text,
                                                    job_description[r]),
                         data |-> extract_data_from_text(resume_text),
                         feedback |-> get_detailed_feedback(resume_text)]]
    /\ message' = [message EXCEPT ![r] = AnalysisComplete]
    /\ spc' = [spc EXCEPT ![r] = "done"]
    /\ UNCHANGED <<uploaded_file, job_description, invoked, missed, classifier,
                   exc>>
    /\ UNCHANGED procVars
    /\ UNCHANGED history
    /\ UNCHANGED textVars
\* line 31: the classifier raises; nothing in the script catches it
ClassifyFails(r) ==
    /\ spc[r] = "classify"
    /\ spc' = [spc EXCEPT ![r] = "uncaught"]
    /\ exc' = [exc EXCEPT ![r] = "model"]
    /\ UNCHANGED <<uploaded_file, job_description, invoked, missed, classifier,
                   message, result>>
    /\ UNCHANGED procVars
    /\ UNCHANGED history
    /\ UNCHANGED textVars

(* ------- extract_data_from_text, statement by statement ---------------- *)
shellIdle ==
    UNCHANGED <<uploaded_file, job_description, spc, invoked, missed,
                classifier, exc, message, result, cache, lock, instances,
                clicks, stubBase, history>>
DoName ==
    /\ pc = "name"
    /\ data' = StepName(data, text)
    /\ pc' = "email"
    /\ UNCHANGED <<text, feedback, ran>>
    /\ shellIdle
DoEmail ==
    /\ pc = "email"
    /\ data' = StepEmail(data, text)
    /\ pc' = "experience"
    /\ UNCHANGED <<text, feedback, ran>>
    /\ shellIdle
DoExperience ==
    /\ pc = "experience"
    /\ data' = StepExperience(data, text)
    /\ pc' = "position"
    /\ UNCHANGED <<text, feedback, ran>>
    /\ shellIdle
DoPosition ==
    /\ pc = "position"
    /\ data' = StepPosition(data, text)
    /\ pc' = "skills"
    /\ UNCHANGED <<text, feedback, ran>>
    /\ shellIdle
DoSkills ==
    /\ pc = "skills"
    /\ data' = StepSkills(data, text)
    /\ pc' = "return"
    /\ UNCHANGED <<text, feedback, ran>>
    /\ shellIdle
NextFields ==
    \/ DoName
    \/ DoEmail
    \/ DoExperience
    \/ DoPosition
    \/ DoSkills
InitFields ==
    /\ InitProcess(ZeroBase)
    /\ InitText(FieldFrags, "name")
SpecFields ==
    InitFields /\ [][NextFields]_vars
InitPosition ==
    /\ InitProcess(ZeroBase)
    /\ InitText(PositionFrags, "name")
SpecPosition ==
    InitPosition /\ [][NextFields]_vars

(* ------- get_detailed_feedback, one rule at a time --------------------- *)
\* Rule i of lines 102-120 runs next.  The source runs the rules in the order
\* 1..5; the order is left open here so that every order is a behaviour.
RunRule(i) ==
    /\ pc = "rules"
    /\ i \notin ran
    /\ feedback' = Rule(i, feedback, text)
    /\ ran' = ran \cup {i}
    /\ pc' = IF ran' = 1..NumRules THEN "return" ELSE "rules"
    /\ UNCHANGED <<text, data>>
    /\ shellIdle
NextRules ==
    \E i \in 1..NumRules : RunRule(i)
InitRules ==
    /\ InitProcess(ZeroBase)
    /\ InitText(FeedbackFrags, "rules")
SpecRules ==
    InitRules /\ [][NextRules]_vars

(* ------- both text functions on one text (app.py 151-152) -------------- *)
AnalyzeText ==
    /\ pc = "analyze"
    /\ data' = extract_data_from_text(text)
    /\ feedback' = get_detailed_feedback(text)
    /\ pc' = "return"
    /\ UNCHANGED <<text, ran>>
    /\ shellIdle
NextAnalyze ==
    AnalyzeText
InitAnalyze ==
    /\ InitProcess(ZeroBase)
    /\ InitText(AnalyzeFrags, "analyze")
SpecAnalyze ==
    InitAnalyze /\ [][NextAnalyze]_vars

(* ------- get_resume_score called from one thread ------------------------ *)
ScoreInputs ==
    {extract_text_from_pdf(f) : f \in {"A", "B"}} \X {JobPython, JobSql}
\* lines 18-36 start to finish: load_model returns the cached classifier or
\* builds and caches it, the classifier answers, the mean is returned
ScoreCall(resume_text, jd) ==
    /\ cache' = IF cache = 0 THEN instances + 1 ELSE cache
    /\ instances' = IF cache = 0 THEN instances + 1 ELSE instances
    /\ LET call == [resume_text |-> resume_text, job_description |-> jd,
                    classifier |-> cache',
                    scores |-> StubScores(stubBase, prompt_of(resume_text, jd),
                                          candidate_labels),
                    score |-> get_resume_score(stubBase, resume_text, jd)]
       IN  history' = IF Len(history) = 2 THEN <<history[2], call>>
                      ELSE Append(history, call)
    /\ UNCHANGED <<uploaded_file, job_description, spc, invoked, missed,
                   classifier, exc, message, result, lock, clicks, stubBase>>
    /\ UNCHANGED textVars
\* line 31 raises after load_model has returned: nothing is returned
ScoreRaises ==
    /\ cache = 0
    /\ cache' = instances + 1
    /\ instances' = instances + 1
    /\ UNCHANGED <<uploaded_file, job_description, spc, invoked, missed,
                   classifier, exc, message, result, lock, clicks, stubBase,
                   history>>
    /\ UNCHANGED textVars
NextScore ==
    \/ \E in \in ScoreInputs : ScoreCall(in[1], in[2])
    \/ ScoreRaises
InitScore ==
    /\ InitProcess(AllBases)
    /\ text = <<>>
    /\ data = InitData
    /\ feedback = InitFeedback
    /\ pc = "off"
    /\ ran = {}
SpecScore ==
    InitScore /\ [][NextScore]_vars

Init ==
    /\ InitProcess(SampleBases)
    /\ text = <<>>
    /\ data = InitData
    /\ feedback = InitFeedback
    /\ pc = "off"
    /\ ran = {}
Next ==
    \/ \E r \in Sessions, file \in Documents \cup {None}, jd \in JobDescriptions :
          Analyze(r, file, jd)
    \/ \E r \in Sessions : ExtractText(r)
    \/ \E r \in Sessions : CacheLookup(r)
    \/ \E r \in Sessions : LockAcquire(r)
    \/ \E r \in Sessions : LockedLookup(r)
    \/ \E r \in Sessions : ConstructModel(r)
    \/ \E r \in Sessions : ConstructFails(r)
    \/ \E r \in Sessions : Classify(r)
    \/ \E r \in Sessions : ClassifyFails(r)
Spec ==
    Init /\ [][Next]_vars

(* ============================ properties =============================== *)

\* C1: a run of the Analyze handler with no uploaded file ends with the
\* upload message, a run with a file and an empty job description ends with
\* the job-description message, the two messages differ, neither run calls
\* get_resume_score, and a run calls get_resume_score only when it has a file
\* and a non-empty job description.
C1_MissingInputReported ==
    /\ UploadError # JobDescriptionError
    /\ \A r \in Sessions :
        /\ invoked[r] => (uploaded_file[r] # None /\ job_description[r] # <<>>)
        /\ (spc[r] # "idle" /\ uploaded_file[r] = None)
              => (spc[r] = "done" /\ message[r] = UploadError /\ ~ invoked[r])
        /\ (spc[r] # "idle" /\ uploaded_file[r] # None /\ job_description[r] = <<>>)
              => (spc[r] = "done" /\ message[r] = JobDescriptionError /\ ~ invoked[r])
\* one session was told to upload a file, another to give a job description,
\* after a third run scored a resume
C1_Witness ==
    /\ \E r \in Sessions : message[r] = UploadError /\ uploaded_file[r] = None
    /\ \E r \in Sessions : /\ message[r] = JobDescriptionError
                           /\ uploaded_file[r] # None
                           /\ job_description[r] = <<>>
    /\ cache # 0

\* C2: at most one classifier is ever constructed in the process, and every
\* run that load_model returned to holds that one instance, the cached one,
\* also when several runs missed the cache before any of them had loaded it.
C2_ModelConstructedOnce ==
    /\ instances <= 1
    /\ cache \in {0, 1}
    /\ \A r \in Sessions : classifier[r] # 0 => (classifier[r] = 1 /\ cache = 1)
\* two runs both missed the cache on their first lookup and both hold the
\* single instance
C2_Witness ==
    \E r1, r2 \in Sessions :
        /\ r1 # r2
        /\ missed[r1] /\ missed[r2]
        /\ classifier[r1] = 1 /\ classifier[r2] = 1
        /\ instances = 1

\* C3: a run in which the classifier failed to load or to answer does not end
\* in an uncaught exception: it ends with a user-facing error message shown,
\* and not with the success message.
C3_ModelFailureShowsError ==
    \A r \in Sessions :
        exc[r] = "model"
            => /\ spc[r] = "done"
               /\ message[r] \notin {"", AnalysisComplete}

(* ---- occurrences, stated position by position for the properties ------ *)
\* pat occurs in s, letter case ignored (pat is lower case)
OccursCI(pat, s) ==
    \E i \in 1..(Len(s) - Len(pat) + 1) :
        \A k \in 1..Len(pat) : ToLowerChar(s[i + k - 1]) = pat[k]
\* pat occurs in s
Occurs(pat, s) ==
    \E i \in 0..(Len(s) - Len(pat)) :
        \A k \in 1..Len(pat) : s[i + k] = pat[k]
\* s has a character of [\w.-] on both sides of an "@"
HasEmailLike(s) ==
    \E i \in 2..(Len(s) - 1) :
        s[i] = "@" /\ IsEmailChar(s[i - 1]) /\ IsEmailChar(s[i + 1])
\* s[i..d-1] are digits followed by white space, "year" or "years", white
\* space and "experience", letter case ignored
ExperiencePhraseAt(s, i, d) ==
    /\ i < d
    /\ \A k \in i..(d - 1) : IsDigit(s[k])
    /\ \E w \in (d + 1)..Len(s) :
        /\ \A k \in d..(w - 1) : IsSpace(s[k])
        /\ \A k \in 1..4 : w + k - 1 <= Len(s) /\ ToLowerChar(s[w + k - 1]) = lit_year[k]
        /\ \E y \in {w + 4, w + 5} :
            /\ y = w + 5 => (w + 4 <= Len(s) /\ ToLowerChar(s[w + 4]) = "s")
            /\ \E x \in (y + 1)..Len(s) :
                /\ \A k \in y..(x - 1) : IsSpace(s[k])
                /\ \A k \in 1..10 :
                      x + k - 1 <= Len(s) /\ ToLowerChar(s[x + k - 1]) = kw_experience[k]
\* the positions where such a phrase starts
ExperiencePhrases(s) ==
    {i \in 1..Len(s) : \E d \in (i + 1)..Len(s) : ExperiencePhraseAt(s, i, d)}
SuffixYears ==
    <<" ", "y", "e", "a", "r", "s">>
TextFiveYearsExperience ==
    <<"I", " ", "h", "a", "v", "e", " ", "5", " ", "y", "e", "a", "r", "s", " ", "e", "x", "p", "e", "r", "i", "e", "n", "c", "e">>
TextFiveYearsOfExperience ==
    <<"I", " ", "h", "a", "v", "e", " ", "5", " ", "y", "e", "a", "r", "s", " ", "o", "f", " ", "e", "x", "p", "e", "r", "i", "e", "n", "c", "e">>
ThreeYearsValue ==
    <<"3", " ", "y", "e", "a", "r", "s">>

\* C4: extract_data_from_text returns, for every text (the empty one too), a
\* map with exactly the keys name, position, email, experience, skills; name,
\* position and email are "Not found" or a piece of the text, experience is
\* "Not found" or digits of the text followed by " years"; email is "Not
\* found" exactly when the text has no email-like substring; and every
\* statement of the function changes no field but its own, so a non-match in
\* one field leaves the others as they were.
C4_FieldsIndependent ==
    /\ [](/\ DOMAIN data = Fields
          /\ pc \in {"email", "experience", "position", "skills", "return"}
                => (data.name = NotFound \/ Occurs(data.name, text))
          /\ pc \in {"experience", "position", "skills", "return"}
                => /\ data.email = NotFound \/ Occurs(data.email, text)
                   /\ (data.email = NotFound) <=> ~ HasEmailLike(text)
          /\ pc \in {"position", "skills", "return"}
                => \/ data.experience = NotFound
                   \/ \E n \in 1..Len(data.experience) :
                        /\ \A k \in 1..n : IsDigit(data.experience[k])
                        /\ Occurs(SubSeq(data.experience, 1, n), text)
                        /\ SubSeq(data.experience, n + 1, Len(data.experience))
                              = SuffixYears
          /\ pc \in {"skills", "return"}
                => (data.position = NotFound \/ Occurs(data.position, text)))
    /\ [][\A k \in Fields :
            data'[k] # data[k]
                => \/ pc = "name" /\ k = "name"
                   \/ pc = "email" /\ k = "email"
                   \/ pc = "experience" /\ k = "experience"
                   \/ pc = "position" /\ k = "position"
                   \/ pc = "skills" /\ k = "skills"]_vars
\* the function returned with no email found while name and experience were
C4_Witness ==
    /\ pc = "return"
    /\ data.email = NotFound
    /\ data.name # NotFound
    /\ data.experience # NotFound
    /\ Occurs(<<"@">>, text)

\* C5: get_detailed_feedback returns exactly one finding, the grammar one, in
\* grammatical_errors when the text contains "years experience" and does not
\* contain "years of experience", letter case ignored, and none otherwise;
\* "I have 5 years experience" has the finding, "I have 5 years of
\* experience" has not.
C5_GrammarRule ==
    pc = "return" =>
        /\ IF OccursCI(lit_years_experience, text)
              /\ ~ OccursCI(lit_years_of_experience, text)
           THEN feedback.grammatical_errors = <<GrammarFinding>>
           ELSE feedback.grammatical_errors = <<>>
        /\ text = TextFiveYearsExperience
              => Len(feedback.grammatical_errors) = 1
        /\ text = TextFiveYearsOfExperience
              => Len(feedback.grammatical_errors) = 0
\* the finding was produced for a text that spells the phrase with capitals
C5_Witness ==
    /\ pc = "return"
    /\ Occurs(FragYearsExperience, text)
    /\ ~ OccursCI(lit_years_of_experience, text)
    /\ feedback.grammatical_errors = <<GrammarFinding>>

\* C6: the experience field is the digits N of the first "<N> year
\* experience" or "<N> years experience" phrase of the text (letter case
\* ignored, the words separated by white space) followed by " years", and
\* "Not found" when the text has no such phrase; "5 years of experience"
\* alone gives "Not found".
C6_ExperienceField ==
    pc \in {"position", "skills", "return"} =>
        /\ IF ExperiencePhrases(text) = {}
           THEN data.experience = NotFound
           ELSE LET first == Least(ExperiencePhrases(text))
                IN  \E d \in (first + 1)..Len(text) :
                        /\ ExperiencePhraseAt(text, first, d)
                        /\ data.experience = SubSeq(text, first, d - 1) \o SuffixYears
        /\ text = FragFiveYears \o FragOf \o FragExperience
              => data.experience = NotFound
\* a text with two phrases, the first one in capitals: the first one won
C6_Witness ==
    /\ pc = "return"
    /\ text = FragThreeYears \o FragFiveYears \o FragExperience
    /\ data.experience = ThreeYearsValue

\* C7: every score get_resume_score returns lies in [0,100] and is the mean
\* of the 7 confidences, each in [0,1], times 100; two calls with the same
\* resume text and job description return the same score.
C7_ScoreIsMeanPercentage ==
    \A a \in 1..Len(history) :
        LET h == history[a]
        IN  /\ Len(h.scores) = 7
            /\ \A i \in 1..7 : 0 <= h.scores[i] /\ h.scores[i] <= ConfScale
            /\ h.score.den > 0
            /\ 0 <= h.score.num
            /\ h.score.num <= 100 * h.score.den
            /\ h.score.num * 7 * ConfScale
                  = h.score.den * 100 * (h.scores[1] + h.scores[2] + h.scores[3]
                        + h.scores[4] + h.scores[5] + h.scores[6] + h.scores[7])
            /\ \A b \in 1..Len(history) :
                  (/\ history[b].resume_text = h.resume_text
                   /\ history[b].job_description = h.job_description)
                      => history[b].score = h.score
\* the same inputs were scored twice by the one cached classifier, with a
\* score strictly between 0 and 100
C7_Witness ==
    /\ Len(history) = 2
    /\ history[1].resume_text = history[2].resume_text
    /\ history[1].job_description = history[2].job_description
    /\ history[1].classifier = history[2].classifier
    /\ 0 < history[2].score.num
    /\ history[2].score.num < 100 * history[2].score.den

\* C8: whatever the order the five rules of get_detailed_feedback run in,
\* the report after the last one is the report of the source's order; a rule
\* changes no category but its own and appends at most one finding to it; and
\* all five rules have run when the function returns.
C8_RulesOrderIndependent ==
    /\ [](/\ pc = "return"
                => (ran = 1..NumRules /\ feedback = get_detailed_feedback(text))
          /\ \A c \in 1..NumRules : Len(feedback[Categories[c]]) <= 1)
    /\ [][\A c \in 1..NumRules :
            feedback'[Categories[c]] # feedback[Categories[c]]
                => /\ c \in ran' \ ran
                   /\ Len(feedback'[Categories[c]]) = Len(feedback[Categories[c]]) + 1
                   /\ SubSeq(feedback'[Categories[c]], 1, Len(feedback[Categories[c]]))
                         = feedback[Categories[c]]]_vars
\* rules 5 and 3 ran before rules 1, 2 and 4 and each appended its finding
C8_Witness ==
    /\ ran = {3, 5}
    /\ feedback.unnecessary_information = <<GpaFinding>>
    /\ feedback.skills_relevance = <<SkillsFinding>>

\* the lines of the text that line 79 accepts
QualifyingLines(s) ==
    {k \in 1..Len(split_nl(s)) :
        /\ Len(split_nl(s)[k]) < 50
        /\ ~ OccursCI(kw_experience, split_nl(s)[k])
        /\ ~ OccursCI(kw_education, split_nl(s)[k])
        /\ ~ OccursCI(kw_skills, split_nl(s)[k])
        /\ ~ OccursCI(kw_contact, split_nl(s)[k])}
\* C9 (as stated): position is the first line shorter than 50 characters that
\* contains none of the four keywords, whatever lines follow it, and it is
\* "Not found" exactly when no line qualifies.
C9_PositionNotFoundIff ==
    pc \in {"skills", "return"} =>
        /\ QualifyingLines(text) # {}
              => data.position = strip(split_nl(text)[Least(QualifyingLines(text))])
        /\ (data.position = NotFound) <=> (QualifyingLines(text) = {})
\* C9 (amended): position is the first qualifying line, stripped of the white
\* space around it, whatever lines follow it, and it is "Not found" when no
\* line qualifies.
C9_PositionFirstQualifyingLine ==
    pc \in {"skills", "return"} =>
        /\ QualifyingLines(text) # {}
              => data.position = strip(split_nl(text)[Least(QualifyingLines(text))])
        /\ QualifyingLines(text) = {} => data.position = NotFound
\* the first line is a section heading, the second qualifies and is taken
C9_Witness ==
    /\ pc = "return"
    /\ text = FragEducation \o FragNewline \o FragEngineer
    /\ data.position = FragEngineer

\* C10: when get_detailed_feedback reports the missing-skills finding,
\* extract_data_from_text reports that no explicit skills section is present,
\* and when extract_data_from_text reports an explicit Skills section,
\* skills_relevance is empty.
C10_SkillsChecksAgree ==
    pc = "return" =>
        /\ feedback.skills_relevance # <<>> => data.skills = SkillsMissing
        /\ data.skills = SkillsFound => feedback.skills_relevance = <<>>
\* a text with "Skills": the section is reported and nothing is flagged
C10_Witness ==
    /\ pc = "return"
    /\ Occurs(lit_Skills, text)
    /\ data.skills = SkillsFound
    /\ feedback.skills_relevance = <<>>
====
